---- MODULE Spec2Model ----
(***************************************************************************)
(* The auto_import assist of ra_assists                                    *)
(* (crates/ra_assists/src/assists/auto_import.rs).                         *)
(*                                                                         *)
(* The assist is a function of a syntax snapshot (the chain of ancestors   *)
(* of the element under the cursor), of the answers of the semantic        *)
(* resolver, and of the answers of the imports locator.  The model keeps   *)
(* those three as state, so that the host can change them between          *)
(* invocations, and keeps the outcome of the latest invocation.            *)
(***************************************************************************)
EXTENDS Integers, Sequences, FiniteSets, TLC

\* take(20)
MaxImports == 20

\* Bounds of the model.
MaxDepth == 5        \* nodes on the ancestor chain of the covering element
MaxFound == 21       \* definitions the imports locator returns
MaxNoise == 1        \* of which: unimportable, empty or repeated paths
MaxInitFound == 2    \* definitions in the index while the tree varies

VARIABLES
    ancestors,  \* the covering element (index 1) and its ancestors, outward
    located,    \* find_use_path's answer for each definition find_imports returns, in order
    db,         \* the resolver's answers to the latest invocation
    stage,      \* "idle", "none", "ready" (group returned), "built" (closure run), "applied"
    assist,     \* the Option<Assist> the latest invocation returned
    queried,    \* the name reference find_imports was called with (0: not called)
    actions,    \* the ActionBuilders the group's closure produced
    applied     \* the alternative the user picked (0: none)

vars == <<ancestors, located, db, stage, assist, queried, actions, applied>>

(***************************************************************************)
(* Syntax                                                                  *)
(***************************************************************************)

\* A token can only be the covering element; SOURCE_FILE has no parent.
TokenKinds == {"IDENT"}
NodeKinds == {"NAME_REF", "PATH", "USE_ITEM", "MODULE", "SOURCE_FILE"}

Node(kind, item_list) == [kind |-> kind, item_list |-> item_list]

\* The syntax nodes a chain may be made of; only a module exposes an item list.
Nodes ==
    {Node(k, FALSE) : k \in NodeKinds} \cup {Node("MODULE", TRUE)}

Elements == Nodes \cup {Node(k, FALSE) : k \in TokenKinds}

NoNode == [kind |-> "NONE", at |-> 0]

\* element.ancestors().find_map(N::cast), starting at chain index from:
\* the index of the nearest node of that kind (0: None).
FindMap(anc, from, kind) ==
    LET S == {i \in from..Len(anc) : anc[i].kind = kind}
    IN  IF S = {} THEN 0 ELSE CHOOSE i \in S : \A j \in S : i <= j

\* ctx.find_node_at_offset::<ast::Path>()
find_node_at_offset(anc) == FindMap(anc, 1, "PATH")

(***************************************************************************)
(* Import paths                                                            *)
(***************************************************************************)

Names == <<"std", "ops", "Debug">>
PathKinds == <<"Plain", "Crate", "Abs">>

ModPath(kind, segments) == [kind |-> kind, segments |-> segments]

\* find_use_path returned None.
NoPath == ModPath("NoPath", <<>>)

\* A path of no segments.
EmptyPath == ModPath("Plain", <<>>)

\* The segment sequences of one or two names, enumerated.
SegmentsAt(m) ==
    IF m < Len(Names)
    THEN <<Names[m + 1]>>
    ELSE <<Names[(((m - Len(Names)) \div Len(Names)) % Len(Names)) + 1],
           Names[((m - Len(Names)) % Len(Names)) + 1]>>

\* The n-th import path the resolver can answer with (n >= 1), all distinct
\* for n up to Len(PathKinds) * (Len(Names) + Len(Names)^2).
KnownPath(n) ==
    ModPath(PathKinds[((n - 1) % Len(PathKinds)) + 1],
            SegmentsAt((n - 1) \div Len(PathKinds)))

RECURSIVE Join(_)
\* The segments separated by "::".
Join(segments) ==
    IF Len(segments) = 0 THEN <<>>
    ELSE IF Len(segments) = 1 THEN <<segments[1]>>
    ELSE <<segments[1], "::">> \o Join(Tail(segments))

\* ModPath's Display: the kind's prefix and the segments, "::" between them.
Render(p) ==
    LET prefix == IF p.kind = "Crate" THEN <<"crate">>
                  ELSE IF p.kind = "Abs" THEN <<"">>
                  ELSE <<>>
    IN  Join(prefix \o p.segments)

(***************************************************************************)
(* The pipeline                                                            *)
(***************************************************************************)

\* let position = ...: the item list of the nearest module above the path,
\* else the source file above the path (NoNode: the ? returns None).
position(anc, path) ==
    LET module == FindMap(anc, path, "MODULE")
        current_file == FindMap(anc, path, "SOURCE_FILE")
    IN  IF module # 0 /\ anc[module].item_list
        THEN [kind |-> "ITEM_LIST", at |-> module]
        ELSE IF current_file = 0 THEN NoNode
        ELSE [kind |-> "SOURCE_FILE", at |-> current_file]

\* ctx.covering_element().ancestors().find_map(ast::Path::cast)
path_to_import(anc) == FindMap(anc, 1, "PATH")

\* The guard that forgets to ask resolve_path.
resolution_guard_unchecked(ctx) ==
    ctx.has_module /\ path_to_import(ctx.ancestors) # 0

\* source_analyzer.module()?, path_to_import?, and the return when
\* resolve_path is Some: TRUE when the pipeline goes on.
resolution_guard(ctx) ==
    /\ ctx.has_module
    /\ path_to_import(ctx.ancestors) # 0
    /\ ~ctx.resolves

\* find_applicable_name_ref without the USE_ITEM test.
find_applicable_name_ref_in_use(anc) ==
    IF anc[1].kind = "NAME_REF" THEN 1
    ELSE IF Len(anc) < 2 THEN 0
    ELSE IF anc[2].kind = "NAME_REF" THEN 2
    ELSE 0

\* find_applicable_name_ref that goes on to the grandparent.
find_applicable_name_ref_deep(anc) ==
    IF \E i \in 1..Len(anc) : anc[i].kind = "USE_ITEM" THEN 0
    ELSE IF anc[1].kind = "NAME_REF" THEN 1
    ELSE FindMap(anc, 2, "NAME_REF")

\* The chain index of the applicable name reference (0: None).
find_applicable_name_ref(anc) ==
    IF \E i \in 1..Len(anc) : anc[i].kind = "USE_ITEM" THEN 0
    ELSE IF anc[1].kind = "NAME_REF" THEN 1
    ELSE IF Len(anc) < 2 THEN 0
    ELSE IF anc[2].kind = "NAME_REF" THEN 2
    ELSE 0

\* .filter_map(|module_def| ...find_use_path(ctx.db, module_def))
FilterMapUsePath(found) == SelectSeq(found, LAMBDA p : p # NoPath)

\* The filter that lets the empty paths through.
FilterAll(paths) == paths

\* .filter(|use_path| !use_path.segments.is_empty())
FilterNonEmpty(paths) == SelectSeq(paths, LAMBDA p : Len(p.segments) # 0)

\* take that lets one entry too many through.
TakeOneMore(paths, n) ==
    SubSeq(paths, 1, IF Len(paths) < n + 1 THEN Len(paths) ELSE n + 1)

\* .take(n)
Take(paths, n) == SubSeq(paths, 1, IF Len(paths) < n THEN Len(paths) ELSE n)

\* Collecting into a Vec: every entry is kept.
CollectVec(paths) == paths

\* .collect::<HashSet<_>>(): one entry per path.  The set's iteration order
\* is unspecified; the model keeps the order of first occurrence.
Collect(paths) ==
    LET first == {i \in 1..Len(paths) : \A j \in 1..(i - 1) : paths[j] # paths[i]}
        F[i \in 0..Len(paths)] ==
            IF i = 0 THEN <<>>
            ELSE IF i \in first THEN Append(F[i - 1], paths[i]) ELSE F[i - 1]
    IN  F[Len(paths)]

\* The chain with the duplicates removed before the truncation.
proposed_imports_dedup_first(found) ==
    Take(Collect(FilterNonEmpty(FilterMapUsePath(found))), MaxImports)

\* let proposed_imports = imports_locator.find_imports(..).into_iter()
\*     .filter_map(..).filter(..).take(20).collect::<HashSet<_>>()
proposed_imports(found) ==
    Collect(Take(FilterNonEmpty(FilterMapUsePath(found)), MaxImports))

None ==
    [id |-> "", label |-> "", position |-> NoNode, path_to_import |-> 0,
     proposed_imports |-> <<>>]

\* The group that is returned whether or not there is a proposal.
add_group_unchecked(proposed, pos, path) ==
    [id |-> "auto_import", label |-> "auto import", position |-> pos,
     path_to_import |-> path, proposed_imports |-> proposed]

\* if proposed_imports.is_empty() { return None } and ctx.add_assist_group:
\* the group holds what its closure captures.
add_group(proposed, pos, path) ==
    IF Len(proposed) = 0 THEN None
    ELSE [id |-> "auto_import", label |-> "auto import", position |-> pos,
          path_to_import |-> path, proposed_imports |-> proposed]

\* The outcome of one invocation: the assist, and the name reference
\* find_imports was asked about.
Outcome(a, q) == [assist |-> a, queried |-> q]

auto_import(ctx, found) ==
    LET anc == ctx.ancestors
        path == find_node_at_offset(anc)
    IN  IF path = 0 THEN Outcome(None, 0)
        ELSE IF position(anc, path) = NoNode THEN Outcome(None, 0)
        ELSE IF ~resolution_guard(ctx) THEN Outcome(None, 0)
        ELSE LET name_to_import == find_applicable_name_ref(anc)
             IN  IF name_to_import = 0 THEN Outcome(None, 0)
                 ELSE Outcome(add_group(proposed_imports(found),
                                        position(anc, path),
                                        path_to_import(anc)),
                              name_to_import)

\* The backquote character of the labels (a TLA+ string cannot hold it).
BackQuote == "BACKQUOTE"

NoEdit == [anchor |-> NoNode, target |-> 0, import |-> <<>>]

\* auto_import_text_edit(position, path, &[import], builder)
auto_import_text_edit(pos, path, import) ==
    [anchor |-> pos, target |-> path, import |-> import]

\* The action whose edit is left for later.
import_to_action_deferred(import, pos, path) ==
    [label |-> <<"Import ", BackQuote>> \o import \o <<BackQuote>>, text_edit |-> NoEdit]

\* format!("Import `{}`", &import) and the edit, built with the action.
import_to_action(import, pos, path) ==
    [label |-> <<"Import ", BackQuote>> \o import \o <<BackQuote>>,
     text_edit |-> auto_import_text_edit(pos, path, import)]

\* The closure handed to add_assist_group.
GroupActions(group) ==
    [i \in 1..Len(group.proposed_imports) |->
        import_to_action(Render(group.proposed_imports[i]),
                         group.position, group.path_to_import)]

(***************************************************************************)
(* The state machine                                                       *)
(***************************************************************************)

NoAnswers == [has_module |-> FALSE, resolves |-> FALSE]

Fresh ==
    /\ db = NoAnswers
    /\ stage = "idle"
    /\ assist = None
    /\ queried = 0
    /\ actions = <<>>
    /\ applied = 0

Reset ==
    /\ db' = NoAnswers
    /\ stage' = "idle"
    /\ assist' = None
    /\ queried' = 0
    /\ actions' = <<>>
    /\ applied' = 0

\* The importable, non-empty answers among the locator's.
Importable(found) == SelectSeq(found, LAMBDA p : p # NoPath /\ Len(p.segments) # 0)

Distinct(found) == {found[i] : i \in 1..Len(found)}

\* The host hands over a new snapshot in which the chain has one more
\* enclosing node.
Reparse ==
    /\ Len(ancestors) < MaxDepth
    /\ ancestors[Len(ancestors)].kind # "SOURCE_FILE"
    /\ \E n \in Nodes : ancestors' = Append(ancestors, n)
    /\ Reset
    /\ UNCHANGED located

\* The index knows one more definition of the name: one with a path not
\* seen before, or (MaxNoise times at most) one that is unimportable, has an
\* empty path, or has the path of the first importable definition.
Locate ==
    /\ Len(located) < MaxFound
    /\ LET imp == Importable(located)
           fresh == KnownPath(Cardinality(Distinct(imp)) + 1)
           noise == {EmptyPath, NoPath}
                    \cup (IF Len(imp) = 0 THEN {} ELSE {imp[1]})
           quiet == Len(located) - Cardinality(Distinct(imp)) >= MaxNoise
       IN  \E p \in {fresh} \cup (IF quiet THEN {} ELSE noise) :
               located' = Append(located, p)
    /\ Reset
    /\ UNCHANGED ancestors

\* auto_import(ctx, imports_locator)
Invoke ==
    /\ stage = "idle"
    /\ \E m \in BOOLEAN, r \in BOOLEAN :
        LET ctx == [ancestors |-> ancestors, has_module |-> m, resolves |-> r]
            out == auto_import(ctx, located)
        IN  /\ db' = [has_module |-> m, resolves |-> r]
            /\ assist' = out.assist
            /\ queried' = out.queried
            /\ stage' = IF out.assist = None THEN "none" ELSE "ready"
    /\ UNCHANGED <<ancestors, located, actions, applied>>

\* The host evaluates the closure of the group.
EvaluateGroup ==
    /\ stage = "ready"
    /\ actions' = GroupActions(assist)
    /\ stage' = "built"
    /\ UNCHANGED <<ancestors, located, db, assist, queried, applied>>

\* The user picks one alternative of the group.
Select ==
    /\ stage = "built"
    /\ \E i \in 1..Len(actions) : applied' = i
    /\ stage' = "applied"
    /\ UNCHANGED <<ancestors, located, db, assist, queried, actions>>

\* The syntax varies, the index is small.
InitTree ==
    /\ ancestors \in {<<e>> : e \in Elements}
    /\ located \in {[i \in 1..n |-> KnownPath(i)] : n \in 0..MaxInitFound}
    /\ Fresh

NextTree == Reparse \/ Invoke \/ EvaluateGroup \/ Select

Spec == InitTree /\ [][NextTree]_vars

\* The index varies, the syntax is that of a bare `Debug` at the top level.
InitIndex ==
    /\ ancestors = <<Node("IDENT", FALSE), Node("NAME_REF", FALSE),
                     Node("PATH", FALSE), Node("SOURCE_FILE", FALSE)>>
    /\ located = <<>>
    /\ Fresh

NextIndex == Locate \/ Invoke \/ EvaluateGroup

SpecIndex == InitIndex /\ [][NextIndex]_vars

(***************************************************************************)
(* Properties                                                              *)
(***************************************************************************)

Invoked == stage # "idle"

InUseItem == \E i \in 1..Len(ancestors) : ancestors[i].kind = "USE_ITEM"

IsNameRef(i) == i <= Len(ancestors) /\ ancestors[i].kind = "NAME_REF"

\* The chain index of the path under the cursor (0: none).
PathAt ==
    IF \E i \in 1..Len(ancestors) : ancestors[i].kind = "PATH"
    THEN CHOOSE i \in 1..Len(ancestors) :
            /\ ancestors[i].kind = "PATH"
            /\ \A j \in 1..(i - 1) : ancestors[j].kind # "PATH"
    ELSE 0

\* The latest invocation found a path, a scope anchor and a module for it.
Anchored == Invoked /\ PathAt # 0 /\ position(ancestors, PathAt) # NoNode /\ db.has_module

\* The indices of the locator's answers that are paths of at least one segment.
ImportableAt == {i \in 1..Len(located) : located[i] # NoPath /\ located[i].segments # <<>>}

\* Those among the first MaxImports of them.
FirstImportableAt ==
    {i \in ImportableAt : Cardinality({j \in ImportableAt : j <= i}) <= MaxImports}

\* The first occurrences of the importable paths, and the first MaxImports of those.
FirstOccurrenceAt ==
    {i \in ImportableAt : \A j \in ImportableAt : j < i => located[j] # located[i]}

FirstDistinctAt ==
    {i \in FirstOccurrenceAt : Cardinality({j \in FirstOccurrenceAt : j <= i}) <= MaxImports}

Proposed == {assist.proposed_imports[i] : i \in 1..Len(assist.proposed_imports)}

LabelOf(p) == <<"Import ", BackQuote>> \o Render(p) \o <<BackQuote>>

\* C1: whenever resolve_path resolves the path under the cursor, the
\* invocation returns None and the locator is not asked, whatever the
\* locator would answer.
C1_Idempotence ==
    (Invoked /\ db.resolves) => (assist = None /\ stage = "none" /\ queried = 0)

\* An invocation on a resolving path that would otherwise get a suggestion.
C1_Witness ==
    /\ Anchored /\ db.resolves
    /\ ~InUseItem /\ (IsNameRef(1) \/ IsNameRef(2))
    /\ ImportableAt # {}
    /\ stage = "none"

\* C2: whenever a USE_ITEM is among the ancestors of the covering element,
\* the invocation returns None, whether or not the path resolves and
\* whatever the locator would answer.
C2_SuppressedInUse ==
    (Invoked /\ InUseItem) => (assist = None /\ stage = "none" /\ queried = 0)

\* An invocation inside a use item on an unresolved name the index knows.
C2_Witness ==
    /\ Anchored /\ ~db.resolves
    /\ InUseItem /\ (IsNameRef(1) \/ IsNameRef(2))
    /\ ImportableAt # {}
    /\ stage = "none"

\* C9: outside a use item the locator is asked about the covering element
\* when it is a name reference, else about its parent when that is one; when
\* neither is, the invocation returns None and the locator is not asked.
C9_ApplicableNameRef ==
    (Invoked /\ ~InUseItem) =>
        /\ queried # 0 => /\ IsNameRef(queried)
                          /\ queried = IF IsNameRef(1) THEN 1 ELSE 2
        /\ (Anchored /\ ~db.resolves /\ (IsNameRef(1) \/ IsNameRef(2))) => queried # 0
        /\ (~IsNameRef(1) /\ ~IsNameRef(2)) => (assist = None /\ queried = 0)

\* The locator is asked about the parent of a covering token, with a name
\* reference further up as well.
C9_Witness ==
    /\ queried = 2 /\ ~IsNameRef(1)
    /\ \E i \in 3..Len(ancestors) : IsNameRef(i)
    /\ stage = "ready"

\* C7: the scope anchor is the item list of the nearest enclosing module
\* that has an item list; the source file only when there is no such module;
\* and without either the invocation returns None.
C7_ScopeAnchor ==
    Invoked =>
        LET withList == {i \in PathAt..Len(ancestors) :
                            ancestors[i].kind = "MODULE" /\ ancestors[i].item_list}
            files == {i \in PathAt..Len(ancestors) : ancestors[i].kind = "SOURCE_FILE"}
        IN  /\ (assist # None /\ withList # {}) =>
                /\ assist.position.kind = "ITEM_LIST"
                /\ assist.position.at \in withList
                /\ \A j \in withList : assist.position.at <= j
            /\ (assist # None /\ withList = {}) =>
                /\ assist.position.kind = "SOURCE_FILE"
                /\ assist.position.at \in files
            /\ (PathAt # 0 /\ withList = {} /\ files = {}) => assist = None

C4_Deduplicated ==
    stage \in {"built", "applied"} =>
        /\ \A i, j \in 1..Len(actions) : actions[i].label = actions[j].label => i = j
        /\ \A k \in FirstImportableAt :
            Cardinality({i \in 1..Len(actions) : actions[i].label = LabelOf(located[k])}) = 1

\* A group built from an index with two definitions of one rendered path.
C4_Witness ==
    /\ stage = "built"
    /\ \E i, j \in FirstImportableAt : i # j /\ Render(located[i]) = Render(located[j])
    /\ Len(actions) >= 2

\* C5: when the locator returns nothing, or nothing with a path of at least
\* one segment, the invocation returns None.
C5_Emptiness ==
    (Invoked /\ \A i \in 1..Len(located) : located[i] = NoPath \/ Len(located[i].segments) = 0)
        => (assist = None /\ stage = "none")

\* The locator was asked and answered with a definition that has an empty
\* path, and with nothing importable.
C5_Witness ==
    /\ queried # 0 /\ stage = "none"
    /\ \E i \in 1..Len(located) : located[i] = EmptyPath
    /\ ImportableAt = {}

C10_Outcome ==
    Invoked =>
        /\ (stage = "none") = (assist = None)
        /\ stage \in {"none", "ready", "built", "applied"}
        /\ assist # None =>
            /\ assist.id = "auto_import"
            /\ Len(assist.proposed_imports) \in 1..MaxImports
            /\ \A p \in Proposed : Len(p.segments) >= 1 /\ p # NoPath
            /\ stage \in {"built", "applied"} =>
                /\ Len(actions) = Len(assist.proposed_imports)
                /\ \A i \in 1..Len(actions) :
                    actions[i].label = LabelOf(assist.proposed_imports[i])

\* A full group built from an index that also answered an empty path.
C10_Witness ==
    /\ stage = "built" /\ Len(actions) = MaxImports
    /\ \E i \in 1..Len(located) : located[i] = EmptyPath

====
